---- MODULE Spec2Model ----
(***************************************************************************)
(* Credential / session lifecycle service (secure-backend).                *)
(*                                                                         *)
(* The stores are the MongoDB collections (users, activesessions,          *)
(* loginattempts); every request handler is an async function whose        *)
(* awaits are single store operations.  A handler is written here as a     *)
(* step function over a request record: RouteStep(db, t, r) executes the   *)
(* code from one await up to the next.  RunToEnd iterates it, which is the *)
(* handler executed without interleaving; the concurrent specification     *)
(* takes one step at a time.                                               *)
(*                                                                         *)
(* Time is counted in minutes (the source counts milliseconds and          *)
(* seconds: 15*60*1000 ms = 15, 86400 s = 1440).                           *)
(***************************************************************************)
EXTENDS Integers, Sequences, FiniteSets, Bags, TLC

VARIABLES
    users,      \* User collection: sequence of documents, _id = index
    sessions,   \* ActiveSession collection: set of documents
    attempts,   \* LoginAttempt collection: bag of documents
    outbox,     \* mails accepted by the transporter
    nextTok,    \* next value of the random token generator
    now,        \* wall clock, minutes
    issued,     \* bearer tokens handed out in 200 responses of login
    inflight,   \* requests being served, one slot per connection
    last,       \* the request answered last, with its response
    hits,       \* the fixed-window limiters' stores: hit count and reset time per key
    passed      \* requests each limiter let through in a key's current window

vars == <<users, sessions, attempts, outbox, nextTok, now, issued, inflight, last,
         hits, passed>>

-----------------------------------------------------------------------------
(* Bounds of the model *)

MaxTicks == 4       \* clock ticks
MaxTokens == 2       \* random tokens drawn
MaxAttempts == 6    \* LoginAttempt rows alive
MaxLoginTicks == 2  \* clock ticks of the login specification
MaxLockRows == 12   \* LoginAttempt rows alive in the lockout specification
MaxRecoverRows == 3 \* LoginAttempt rows alive in the recovery specification
MaxSessionRows == 2 \* LoginAttempt rows alive or on their way in the session specification
MaxSessionTicks == 1 \* clock ticks of the session specification
MaxApiHits == 101   \* hits one source may reach at the general limiter
MaxAuthHits == 6    \* hits one source may reach at the auth limiter
MaxRegistrationHits == 4 \* hits one source may reach at the registration limiter
MaxLimitTicks == 1  \* clock ticks of the limiter specification
MaxEndRows == 6     \* LoginAttempt rows alive in the lockout-end specification
MaxLate == 1        \* minutes past a deadline at which requests are still sent
MaxRaceRows == 6    \* LoginAttempt rows alive or on their way in the overlapping-login specification

(* Program constants, minutes where they are durations *)

EmailFailLimit == 5
IpFailLimit == 10
AttemptWindow == 15
AttemptTTL == 15
SessionTTL == 1440
RegistrationTokenExpiry == 60
PasswordResetExpiry == 15
JwtExpiry == 1440
MinPasswordLength == 8
ApiWindow == 15
ApiMax == 100
AuthWindow == 15
AuthMax == 5
RegistrationWindow == 60
RegistrationMax == 3

TickLen == AttemptWindow
MaxTime == MaxTicks * TickLen

-----------------------------------------------------------------------------
(* Values *)

NullToken == 0          \* null / missing / empty token string
NullDate == -1          \* null date: no $gt comparison with it matches
NoEmail == ""           \* missing or empty email
NoPassword == ""        \* missing or empty password
JwtSecret == "JWT_SECRET"

\* String.prototype.toLowerCase on the addresses the model uses
ToLowerCase(s) ==
    CASE s = "ANN" -> "ann"
      [] s = "BOB" -> "bob"
      [] OTHER -> s

\* bcrypt hash of the pre-save hook, and bcrypt.compare of comparePassword
HashPassword(pw) == <<"bcrypt", pw>>

ComparePassword(candidate, stored) == stored = HashPassword(candidate)

NoUser ==
    [id |-> 0, email |-> NoEmail, password |-> HashPassword(NoPassword),
     isVerified |-> FALSE,
     registrationToken |-> NullToken, registrationTokenExpires |-> NullDate,
     passwordResetToken |-> NullToken, passwordResetExpires |-> NullDate]

NoJwt == [id |-> 0, iat |-> 0, exp |-> 0, key |-> "none"]

RECURSIVE SumOver(_, _)
SumOver(B, S) ==
    IF S = {} THEN 0
    ELSE LET x == CHOOSE y \in S : TRUE IN B[x] + SumOver(B, S \ {x})

-----------------------------------------------------------------------------
(* User collection (models/User).  Addresses are stored lowercased and     *)
(* carry a unique index; a lookup matches the string it is given.          *)

UserIds(us) == 1..Len(us)

\* findOne: the first matching document, or null
FirstOf(us, S) == IF S = {} THEN NoUser ELSE us[CHOOSE i \in S : \A j \in S : i <= j]

FindByEmail(us, email) == FirstOf(us, {i \in UserIds(us) : us[i].email = email})

FindById(us, id) == IF id \in UserIds(us) THEN us[id] ELSE NoUser

FindByRegistrationToken(us, token, t) ==
    FirstOf(us, {i \in UserIds(us) : /\ us[i].registrationToken = token
                                     /\ us[i].registrationTokenExpires > t})

FindByResetToken(us, token, t) ==
    FirstOf(us, {i \in UserIds(us) : /\ us[i].passwordResetToken = token
                                     /\ us[i].passwordResetExpires > t})

\* the email path of the schema: an address is stored lowercased
StoredEmail(email) == ToLowerCase(email)

\* the unique index on email: a second document for the address is refused
DuplicateEmail(us, email) == \E i \in UserIds(us) : us[i].email = StoredEmail(email)

\* mutant: the new document is born verified
NewUser_Verified(us, email, password, token, expires) ==
    [id |-> Len(us) + 1, email |-> StoredEmail(email),
     password |-> HashPassword(password), isVerified |-> TRUE,
     registrationToken |-> token, registrationTokenExpires |-> expires,
     passwordResetToken |-> NullToken, passwordResetExpires |-> NullDate]

\* User.create: the document a successful insert appends
NewUser(us, email, password, token, expires) ==
    [id |-> Len(us) + 1, email |-> StoredEmail(email),
     password |-> HashPassword(password), isVerified |-> FALSE,
     registrationToken |-> token, registrationTokenExpires |-> expires,
     passwordResetToken |-> NullToken, passwordResetExpires |-> NullDate]

\* document.save() of a loaded document: $set of the modified paths only
UserSave(us, id, delta) ==
    [us EXCEPT ![id] =
        [f \in DOMAIN us[id] |-> IF f \in DOMAIN delta THEN delta[f] ELSE us[id][f]]]

-----------------------------------------------------------------------------
(* LoginAttempt and ActiveSession collections *)

NewAttempt(email, ip, successful, t) ==
    [email |-> ToLowerCase(email), ip |-> ip, successful |-> successful, timestamp |-> t]

AttemptCreate(as, row) == as (+) SetToBag({row})

\* countDocuments({email, successful: false, timestamp: {$gte: since}})
CountFailedByEmail(as, email, since) ==
    SumOver(as, {a \in DOMAIN as :
        a.email = email /\ ~a.successful /\ a.timestamp >= since})

\* countDocuments({ip, successful: false, timestamp: {$gte: since}})
CountFailedByIp(as, ip, since) ==
    SumOver(as, {a \in DOMAIN as :
        a.ip = ip /\ ~a.successful /\ a.timestamp >= since})

SessionsOf(ss, userId) == {s \in ss : s.userId = userId}

\* mutant: the filter is dropped and any one document is removed
SessionDeleteOne_Any(ss, userId) ==
    IF ss = {} THEN ss ELSE ss \ {CHOOSE s \in ss : TRUE}

\* deleteOne({userId}): removes one matching document, if there is one
SessionDeleteOne(ss, userId) ==
    IF SessionsOf(ss, userId) = {} THEN ss
    ELSE ss \ {CHOOSE s \in SessionsOf(ss, userId) : TRUE}

\* the unique index on userId: a second document for the user is refused
DuplicateSession(ss, userId) == SessionsOf(ss, userId) # {}

NewSession(userId, token, t) == [userId |-> userId, token |-> token, createdAt |-> t]

-----------------------------------------------------------------------------
(* Token generators (utils/tokenGenerator) *)

\* jwt.sign({id}, JWT_SECRET, {expiresIn: JWT_EXPIRY})
GenerateAuthToken(userId, t) ==
    [id |-> userId, iat |-> t, exp |-> t + JwtExpiry, key |-> JwtSecret]

\* jwt.verify(token, JWT_SECRET): signature and expiry
JwtVerifies(token, t) == token.key = JwtSecret /\ t < token.exp

GetTokenExpiryDate(t) == t + RegistrationTokenExpiry

GetPasswordResetExpiryDate(t) == t + PasswordResetExpiry

-----------------------------------------------------------------------------
(* Requests.  A request record holds the inputs (body, source address,    *)
(* Authorization header, whether the transporter will accept the mail),   *)
(* the position in the handler, the handler's locals and the response.    *)

NewRequest(kind, email, password, token, ip, bearer, mailOk) ==
    [kind |-> kind, email |-> email, password |-> password, token |-> token,
     ip |-> ip, bearer |-> bearer, mailOk |-> mailOk,
     pc |-> "begin",
     since |-> 0, failedAttempts |-> 0, ipFailedAttempts |-> 0,
     user |-> NoUser, newToken |-> NullToken, newExpires |-> NullDate,
     authToken |-> NoJwt, deletedCount |-> 0,
     status |-> 0, message |-> "", rtoken |-> NoJwt]

Idle == [NewRequest("none", NoEmail, NoPassword, NullToken, "", NoJwt, TRUE)
            EXCEPT !.pc = "idle"]

\* what is kept of an answered request: inputs, response, deleteOne's count
Answered(r) ==
    [kind |-> r.kind, email |-> r.email, password |-> r.password, token |-> r.token,
     ip |-> r.ip, bearer |-> r.bearer, mailOk |-> r.mailOk,
     status |-> r.status, message |-> r.message, rtoken |-> r.rtoken,
     deletedCount |-> r.deletedCount]

Database == [users |-> users, sessions |-> sessions, attempts |-> attempts,
             outbox |-> outbox, nextTok |-> nextTok]

Goto(db, r, pc) == [db |-> db, r |-> [r EXCEPT !.pc = pc]]

\* res.status(status).json({success, message})
Respond(db, r, status, message) ==
    [db |-> db, r |-> [r EXCEPT !.pc = "done", !.status = status, !.message = message]]

\* mutant: the flag is dropped and the schema default (false) is stored
RecordLoginAttempt_DefaultFlag(db, email, ip, successful, t) ==
    [db EXCEPT !.attempts = AttemptCreate(db.attempts, NewAttempt(email, ip, FALSE, t))]

\* mutant: recording a success removes the address's failed rows
RecordLoginAttempt_SuccessClears(db, email, ip, successful, t) ==
    IF successful
    THEN [db EXCEPT !.attempts =
            AttemptCreate([a \in {x \in DOMAIN db.attempts :
                                    x.successful \/ x.email # ToLowerCase(email)}
                            |-> db.attempts[a]],
                          NewAttempt(email, ip, TRUE, t))]
    ELSE [db EXCEPT !.attempts = AttemptCreate(db.attempts, NewAttempt(email, ip, FALSE, t))]

\* recordLoginAttempt(email, ip, successful)
RecordLoginAttempt(db, email, ip, successful, t) ==
    [db EXCEPT !.attempts = AttemptCreate(db.attempts, NewAttempt(email, ip, successful, t))]

\* transporter.sendMail: the mail is accepted, or sendMail throws
SendMail(db, r, mailKind, token) ==
    IF r.mailOk
    THEN [db EXCEPT !.outbox = @ \cup {[kind |-> mailKind, to |-> r.email, token |-> token]}]
    ELSE db

-----------------------------------------------------------------------------
(* POST /login: advancedLoginLimiter, then login *)

\* mutant: the block starts one failure late
EmailBlocked_OneLate(failedAttempts) == failedAttempts > EmailFailLimit

EmailBlocked(failedAttempts) == failedAttempts >= EmailFailLimit

\* mutant: the source is blocked one failure late
IpBlocked_OneLate(ipFailedAttempts) == ipFailedAttempts > IpFailLimit

IpBlocked(ipFailedAttempts) == ipFailedAttempts >= IpFailLimit

AlreadyLoggedIn(ss, user) == SessionsOf(ss, user.id) # {}

\* req.userEmail, as the limiter stores it
UserEmail(r) == ToLowerCase(r.email)

\* login, up to its first await
LoginEntry(db, r) ==
    IF r.email = NoEmail \/ r.password = NoPassword
    THEN Goto(db, r, "login_recordMissing")
    ELSE Goto(db, r, "login_findUser")

\* mutant: the active-session check comes before the lockout checks
GateVerdict_SessionFirst(db, r) ==
    IF AlreadyLoggedIn(db.sessions, FindByEmail(db.users, UserEmail(r)))
    THEN Respond(db, r, 409,
            "User is already logged in. Please logout first or wait for session to expire.")
    ELSE IF EmailBlocked(r.failedAttempts)
    THEN Respond(db, r, 429,
            "Too many failed login attempts for this email. Please try again in 15 minutes.")
    ELSE IF IpBlocked(r.ipFailedAttempts)
    THEN Respond(db, r, 429,
            "Too many failed login attempts from this IP. Please try again in 15 minutes.")
    ELSE Goto(db, r, "gate_findUser")

\* the limiter's verdict once both counts are in
GateVerdict(db, r) ==
    IF EmailBlocked(r.failedAttempts)
    THEN Respond(db, r, 429,
            "Too many failed login attempts for this email. Please try again in 15 minutes.")
    ELSE IF IpBlocked(r.ipFailedAttempts)
    THEN Respond(db, r, 429,
            "Too many failed login attempts from this IP. Please try again in 15 minutes.")
    ELSE Goto(db, r, "gate_findUser")

\* mutant: the limiter does not look at the session registry
GateSession_NoCheck(db, r) == LoginEntry(db, r)

\* the limiter's active-session check
GateSession(db, r) ==
    IF AlreadyLoggedIn(db.sessions, r.user)
    THEN Respond(db, r, 409,
            "User is already logged in. Please logout first or wait for session to expire.")
    ELSE LoginEntry(db, r)

\* mutant: an address without account is answered like an unverified one
LoginCheckUser_UnknownAsUnverified(db, t, r, u) ==
    IF u.id = 0 \/ ~u.isVerified THEN Goto(db, r, "login_recordUnverified")
    ELSE IF ~ComparePassword(r.password, u.password)
    THEN Goto(db, r, "login_recordMismatch")
    ELSE Goto(db, [r EXCEPT !.user = u, !.authToken = GenerateAuthToken(u.id, t)],
              "login_deleteSession")

\* mutant: the password is compared before the account's verification is looked at
LoginCheckUser_PasswordFirst(db, t, r, u) ==
    IF u.id = 0 THEN Goto(db, r, "login_recordNoUser")
    ELSE IF ~ComparePassword(r.password, u.password)
    THEN Goto(db, r, "login_recordMismatch")
    ELSE Goto(db, [r EXCEPT !.user = u, !.authToken = GenerateAuthToken(u.id, t)],
              "login_deleteSession")

\* login, after the user document is loaded
LoginCheckUser(db, t, r, u) ==
    IF u.id = 0 THEN Goto(db, r, "login_recordNoUser")
    ELSE IF ~u.isVerified THEN Goto(db, r, "login_recordUnverified")
    ELSE IF ~ComparePassword(r.password, u.password)
    THEN Goto(db, r, "login_recordMismatch")
    ELSE Goto(db, [r EXCEPT !.user = u, !.authToken = GenerateAuthToken(u.id, t)],
              "login_deleteSession")

\* mutant: the session record is created without the token
LoginCreateSession_WithoutToken(db, t, r) ==
    IF DuplicateSession(db.sessions, r.user.id)
    THEN Respond(db, r, 500, "Server error")
    ELSE Goto([db EXCEPT !.sessions = @ \cup {NewSession(r.user.id, NoJwt, t)}],
              r, "login_recordSuccess")

\* mutant: the insert goes through whatever the registry holds
LoginCreateSession_NoIndex(db, t, r) ==
    Goto([db EXCEPT !.sessions = @ \cup {NewSession(r.user.id, r.authToken, t)}],
         r, "login_recordSuccess")

\* createActiveSession's ActiveSession.create
LoginCreateSession(db, t, r) ==
    IF DuplicateSession(db.sessions, r.user.id)
    THEN Respond(db, r, 500, "Server error")
    ELSE Goto([db EXCEPT !.sessions = @ \cup {NewSession(r.user.id, r.authToken, t)}],
              r, "login_recordSuccess")

LoginRouteStep(db, t, r) ==
    CASE r.pc = "begin" ->
            IF r.email = NoEmail
            THEN Respond(db, r, 400, "Email is required")
            ELSE Goto(db, [r EXCEPT !.since = t - AttemptWindow], "gate_countEmail")
      [] r.pc = "gate_countEmail" ->
            Goto(db, [r EXCEPT !.failedAttempts =
                        CountFailedByEmail(db.attempts, ToLowerCase(r.email), r.since)],
                 "gate_countIp")
      [] r.pc = "gate_countIp" ->
            GateVerdict(db, [r EXCEPT !.ipFailedAttempts =
                        CountFailedByIp(db.attempts, r.ip, r.since)])
      [] r.pc = "gate_findUser" ->
            LET u == FindByEmail(db.users, ToLowerCase(r.email))
            IN  IF u.id # 0
                THEN Goto(db, [r EXCEPT !.user = u], "gate_findSession")
                ELSE LoginEntry(db, r)
      [] r.pc = "gate_findSession" -> GateSession(db, r)
      [] r.pc = "login_recordMissing" ->
            Respond(RecordLoginAttempt(db, UserEmail(r), r.ip, FALSE, t), r,
                    400, "Email and password are required")
      [] r.pc = "login_findUser" ->
            LoginCheckUser(db, t, r, FindByEmail(db.users, UserEmail(r)))
      [] r.pc = "login_recordNoUser" ->
            Respond(RecordLoginAttempt(db, UserEmail(r), r.ip, FALSE, t), r,
                    401, "Invalid credentials")
      [] r.pc = "login_recordUnverified" ->
            Respond(RecordLoginAttempt(db, UserEmail(r), r.ip, FALSE, t), r,
                    401, "Please verify your email first")
      [] r.pc = "login_recordMismatch" ->
            Respond(RecordLoginAttempt(db, UserEmail(r), r.ip, FALSE, t), r,
                    401, "Invalid credentials")
      [] r.pc = "login_deleteSession" ->
            Goto([db EXCEPT !.sessions = SessionDeleteOne(@, r.user.id)], r,
                 "login_createSession")
      [] r.pc = "login_createSession" -> LoginCreateSession(db, t, r)
      [] r.pc = "login_recordSuccess" ->
            LET out == Respond(RecordLoginAttempt(db, UserEmail(r), r.ip, TRUE, t), r, 200, "")
            IN  [out EXCEPT !.r.rtoken = r.authToken]

-----------------------------------------------------------------------------
(* POST /register *)

\* generateRegistrationToken / generatePasswordResetToken: crypto.randomBytes,
\* a value never drawn before, with the expiry computed right after it
DrawToken(db, r, expires) ==
    [db |-> [db EXCEPT !.nextTok = @ + 1],
     r |-> [r EXCEPT !.newToken = db.nextTok, !.newExpires = expires]]

\* mutant: an existing account gets a new token whether verified or not
RegisterCheckUser_ResendsToVerified(db, t, r, userExists) ==
    LET drawn == DrawToken(db, r, GetTokenExpiryDate(t))
    IN  IF userExists.id # 0
        THEN Goto(drawn.db, [drawn.r EXCEPT !.user = userExists], "register_saveUser")
        ELSE Goto(drawn.db, drawn.r, "register_createUser")

\* register, after User.findOne({email})
RegisterCheckUser(db, t, r, userExists) ==
    LET drawn == DrawToken(db, r, GetTokenExpiryDate(t))
    IN  IF userExists.id # 0
        THEN IF ~userExists.isVerified
             THEN Goto(drawn.db, [drawn.r EXCEPT !.user = userExists], "register_saveUser")
             ELSE Respond(db, r, 400, "User already exists")
        ELSE Goto(drawn.db, drawn.r, "register_createUser")

\* mutant: the resend branch refreshes the expiry and keeps the old token
RegisterResendDelta_KeepsToken(r) ==
    [registrationTokenExpires |-> r.newExpires]

\* userExists.save() of the resend branch
RegisterResendDelta(r) ==
    [registrationToken |-> r.newToken, registrationTokenExpires |-> r.newExpires]

\* mutant: the insert goes through whatever the collection holds
RegisterCreateUser_NoIndex(db, r) ==
    Goto([db EXCEPT !.users = Append(@,
                NewUser(@, r.email, "temporary_password", r.newToken, r.newExpires))],
         r, "register_sendNew")

\* User.create of the new-account branch
RegisterCreateUser(db, r) ==
    IF DuplicateEmail(db.users, r.email)
    THEN Respond(db, r, 500, "Server error")
    ELSE Goto([db EXCEPT !.users = Append(@,
                    NewUser(@, r.email, "temporary_password", r.newToken, r.newExpires))],
              r, "register_sendNew")

RegisterStep(db, t, r) ==
    CASE r.pc = "begin" ->
            IF r.email = NoEmail
            THEN Respond(db, r, 400, "Email is required")
            ELSE Goto(db, r, "register_findUser")
      [] r.pc = "register_findUser" ->
            RegisterCheckUser(db, t, r, FindByEmail(db.users, r.email))
      [] r.pc = "register_saveUser" ->
            Goto([db EXCEPT !.users = UserSave(@, r.user.id, RegisterResendDelta(r))],
                 r, "register_sendResend")
      [] r.pc = "register_sendResend" ->
            IF r.mailOk
            THEN Respond(SendMail(db, r, "verification", r.newToken), r,
                         200, "Verification email sent again")
            ELSE Respond(db, r, 500, "Server error")
      [] r.pc = "register_createUser" -> RegisterCreateUser(db, r)
      [] r.pc = "register_sendNew" ->
            IF r.mailOk
            THEN Respond(SendMail(db, r, "verification", r.newToken), r, 201,
                    "Registration initiated, please check your email to complete the process")
            ELSE Respond(db, r, 500, "Server error")

-----------------------------------------------------------------------------
(* POST /verify-registration *)

PasswordTooShort(password) == Len(password) < MinPasswordLength

\* mutant: the token is cleared and its expiry left in place
VerifyDelta_KeepsExpiry(r) ==
    [password |-> HashPassword(r.password), isVerified |-> TRUE,
     registrationToken |-> NullToken]

\* mutant: the verified account keeps its registration token
VerifyDelta_KeepsToken(r) ==
    [password |-> HashPassword(r.password), isVerified |-> TRUE]

\* user.save() of verifyRegistration
VerifyDelta(r) ==
    [password |-> HashPassword(r.password), isVerified |-> TRUE,
     registrationToken |-> NullToken, registrationTokenExpires |-> NullDate]

\* mutant: the password is validated before the token, as resetPassword does
VerifyCheckUser_LengthFirst(db, r, user) ==
    IF PasswordTooShort(r.password)
    THEN Respond(db, r, 400, "Password should be at least 8 characters long")
    ELSE IF user.id = 0 THEN Respond(db, r, 400, "Invalid or expired token")
    ELSE Goto(db, [r EXCEPT !.user = user], "verify_saveUser")

\* verifyRegistration, after User.findOne({registrationToken, ...})
VerifyCheckUser(db, r, user) ==
    IF user.id = 0 THEN Respond(db, r, 400, "Invalid or expired token")
    ELSE IF PasswordTooShort(r.password)
    THEN Respond(db, r, 400, "Password should be at least 8 characters long")
    ELSE Goto(db, [r EXCEPT !.user = user], "verify_saveUser")

VerifyRegistrationStep(db, t, r) ==
    CASE r.pc = "begin" ->
            IF r.token = NullToken \/ r.password = NoPassword
            THEN Respond(db, r, 400, "Token and password are required")
            ELSE Goto(db, r, "verify_findUser")
      [] r.pc = "verify_findUser" ->
            VerifyCheckUser(db, r, FindByRegistrationToken(db.users, r.token, t))
      [] r.pc = "verify_saveUser" ->
            Respond([db EXCEPT !.users = UserSave(@, r.user.id, VerifyDelta(r))], r,
                    200, "Registration successful, you can now login")

-----------------------------------------------------------------------------
(* POST /forgot-password *)

GenericForgotMessage ==
    "If an account with that email exists, a password reset link has been sent"

\* mutant: an address without account is told so
ForgotCheckUser_RevealsUnknown(db, t, r, user) ==
    LET drawn == DrawToken(db, r, GetPasswordResetExpiryDate(t))
    IN  IF user.id = 0 THEN Respond(db, r, 404, "User not found")
        ELSE IF ~user.isVerified THEN Respond(db, r, 400, "Please verify your email first")
        ELSE Goto(drawn.db, [drawn.r EXCEPT !.user = user], "forgot_saveUser")

\* mutant: every existing account gets a reset token, verified or not
ForgotCheckUser_SkipsVerified(db, t, r, user) ==
    LET drawn == DrawToken(db, r, GetPasswordResetExpiryDate(t))
    IN  IF user.id = 0 THEN Respond(db, r, 200, GenericForgotMessage)
        ELSE Goto(drawn.db, [drawn.r EXCEPT !.user = user], "forgot_saveUser")

\* forgotPassword, after User.findOne({email: email.toLowerCase()})
ForgotCheckUser(db, t, r, user) ==
    LET drawn == DrawToken(db, r, GetPasswordResetExpiryDate(t))
    IN  IF user.id = 0 THEN Respond(db, r, 200, GenericForgotMessage)
        ELSE IF ~user.isVerified THEN Respond(db, r, 400, "Please verify your email first")
        ELSE Goto(drawn.db, [drawn.r EXCEPT !.user = user], "forgot_saveUser")

ForgotDelta(r) ==
    [passwordResetToken |-> r.newToken, passwordResetExpires |-> r.newExpires]

\* mutant: a failure of the mail sender is swallowed
ForgotPasswordStep_SwallowsMailError(db, t, r) ==
    CASE r.pc = "begin" ->
            IF r.email = NoEmail
            THEN Respond(db, r, 400, "Email is required")
            ELSE Goto(db, r, "forgot_findUser")
      [] r.pc = "forgot_findUser" ->
            ForgotCheckUser(db, t, r, FindByEmail(db.users, ToLowerCase(r.email)))
      [] r.pc = "forgot_saveUser" ->
            Goto([db EXCEPT !.users = UserSave(@, r.user.id, ForgotDelta(r))],
                 r, "forgot_send")
      [] r.pc = "forgot_send" ->
            Respond(SendMail(db, r, "passwordReset", r.newToken), r,
                    200, GenericForgotMessage)

ForgotPasswordStep(db, t, r) ==
    CASE r.pc = "begin" ->
            IF r.email = NoEmail
            THEN Respond(db, r, 400, "Email is required")
            ELSE Goto(db, r, "forgot_findUser")
      [] r.pc = "forgot_findUser" ->
            ForgotCheckUser(db, t, r, FindByEmail(db.users, ToLowerCase(r.email)))
      [] r.pc = "forgot_saveUser" ->
            Goto([db EXCEPT !.users = UserSave(@, r.user.id, ForgotDelta(r))],
                 r, "forgot_send")
      [] r.pc = "forgot_send" ->
            IF r.mailOk
            THEN Respond(SendMail(db, r, "passwordReset", r.newToken), r,
                         200, GenericForgotMessage)
            ELSE Respond(db, r, 500, "Server error")

-----------------------------------------------------------------------------
(* POST /reset-password *)

\* mutant: the reset token outlives the reset
ResetDelta_KeepsToken(r) == [password |-> HashPassword(r.password)]

ResetDelta(r) ==
    [password |-> HashPassword(r.password),
     passwordResetToken |-> NullToken, passwordResetExpires |-> NullDate]

\* resetPassword, up to its first await
ResetEntry(db, r) ==
    IF r.token = NullToken \/ r.password = NoPassword
    THEN Respond(db, r, 400, "Token and password are required")
    ELSE IF PasswordTooShort(r.password)
    THEN Respond(db, r, 400, "Password should be at least 8 characters long")
    ELSE Goto(db, r, "reset_findUser")

\* mutant: the session is left in place
RemoveActiveSession_Skipped(db, r) == [db |-> db, r |-> r]

\* removeActiveSession(userId); deleteOne reports how many it removed
RemoveActiveSession(db, r) ==
    [db |-> [db EXCEPT !.sessions = SessionDeleteOne(@, r.user.id)],
     r |-> [r EXCEPT !.deletedCount =
                Cardinality(db.sessions) - Cardinality(SessionDeleteOne(db.sessions, r.user.id))]]

ResetPasswordStep(db, t, r) ==
    CASE r.pc = "begin" -> ResetEntry(db, r)
      [] r.pc = "reset_findUser" ->
            LET user == FindByResetToken(db.users, r.token, t)
            IN  IF user.id = 0
                THEN Respond(db, r, 400, "Invalid or expired reset token")
                ELSE Goto(db, [r EXCEPT !.user = user], "reset_saveUser")
      [] r.pc = "reset_saveUser" ->
            Goto([db EXCEPT !.users = UserSave(@, r.user.id, ResetDelta(r))],
                 r, "reset_removeSession")
      [] r.pc = "reset_removeSession" ->
            LET out == RemoveActiveSession(db, r)
            IN  Respond(out.db, out.r, 200,
                    "Password reset successful, please login with your new password")

-----------------------------------------------------------------------------
(* protect (middlewares/auth), POST /logout, GET /users/protected *)

\* a token signed with another key
ForgedJwt == [id |-> 1, iat |-> 0, exp |-> JwtExpiry, key |-> "other"]

\* a string that is no JWT at all
MalformedJwt == [id |-> 0, iat |-> 0, exp |-> 0, key |-> "malformed"]

\* jwt.sign({id}, JWT_SECRET) with an expiry of the signer's choice
SignedJwt(id, exp) == [id |-> id, iat |-> 0, exp |-> exp, key |-> JwtSecret]

\* mutant: an expired token is told apart from the other failures
ProtectEntry_ExpiredSaysSo(db, t, r) ==
    IF r.bearer = NoJwt
    THEN Respond(db, r, 401, "Not authorized, no token provided")
    ELSE IF r.bearer.key = JwtSecret /\ ~JwtVerifies(r.bearer, t)
    THEN Respond(db, r, 401, "Not authorized, token expired")
    ELSE IF ~JwtVerifies(r.bearer, t)
    THEN Respond(db, r, 401, "Not authorized, token failed")
    ELSE Goto(db, r, "protect_findUser")

\* protect, up to User.findById; NoJwt stands for a request without the header
ProtectEntry(db, t, r) ==
    IF r.bearer = NoJwt
    THEN Respond(db, r, 401, "Not authorized, no token provided")
    ELSE IF ~JwtVerifies(r.bearer, t)
    THEN Respond(db, r, 401, "Not authorized, token failed")
    ELSE Goto(db, r, "protect_findUser")

\* mutant: the user's isVerified flag is not looked at
ProtectCheckUser_SkipsVerified(db, r, user) ==
    IF user.id = 0 THEN Respond(db, r, 401, "Not authorized, user not found")
    ELSE IF r.kind = "logout" THEN Goto(db, [r EXCEPT !.user = user], "logout_removeSession")
    ELSE Respond(db, [r EXCEPT !.user = user], 200, "You have access to protected data")

\* mutant: the guard also asks for the user's session record
ProtectCheckUser_NeedsSession(db, r, user) ==
    IF user.id = 0 THEN Respond(db, r, 401, "Not authorized, user not found")
    ELSE IF ~user.isVerified THEN Respond(db, r, 401, "Please verify your email first")
    ELSE IF SessionsOf(db.sessions, user.id) = {}
    THEN Respond(db, r, 401, "Not authorized, token failed")
    ELSE IF r.kind = "logout" THEN Goto(db, [r EXCEPT !.user = user], "logout_removeSession")
    ELSE Respond(db, [r EXCEPT !.user = user], 200, "You have access to protected data")

\* protect, after User.findById; next() enters the route's handler
ProtectCheckUser(db, r, user) ==
    IF user.id = 0 THEN Respond(db, r, 401, "Not authorized, user not found")
    ELSE IF ~user.isVerified THEN Respond(db, r, 401, "Please verify your email first")
    ELSE IF r.kind = "logout" THEN Goto(db, [r EXCEPT !.user = user], "logout_removeSession")
    ELSE Respond(db, [r EXCEPT !.user = user], 200, "You have access to protected data")

ProtectedRouteStep(db, t, r) ==
    CASE r.pc = "begin" -> ProtectEntry(db, t, r)
      [] r.pc = "protect_findUser" ->
            ProtectCheckUser(db, r, FindById(db.users, r.bearer.id))
      [] r.pc = "logout_removeSession" ->
            LET out == RemoveActiveSession(db, r)
            IN  Respond(out.db, out.r, 200, "Logged out successfully")

\* whether protect lets a request with this bearer token through
ProtectAccepts(us, t, bearer) ==
    /\ bearer # NoJwt
    /\ JwtVerifies(bearer, t)
    /\ FindById(us, bearer.id).id # 0
    /\ FindById(us, bearer.id).isVerified

-----------------------------------------------------------------------------
(* Fixed-window limiters (express-rate-limit, configured in               *)
(* middlewares/rateLimiter and mounted in server and routes/authRoutes).  *)
(* A store maps a key, the client address, to a hit count and the time at *)
(* which the key's window ends.                                           *)

ApiLimiter ==
    [name |-> "api", windowMs |-> ApiWindow, max |-> ApiMax,
     message |-> "Too many requests, please try again after 15 minutes"]

AuthLimiter ==
    [name |-> "auth", windowMs |-> AuthWindow, max |-> AuthMax,
     message |-> "Too many authentication attempts, please try again after 15 minutes"]

RegistrationLimiter ==
    [name |-> "registration", windowMs |-> RegistrationWindow, max |-> RegistrationMax,
     message |-> "Too many registration attempts, please try again after 1 hour"]

NoLimiter == [name |-> "none", windowMs |-> 0, max |-> 0, message |-> ""]

\* the store's entry of a key whose window has not ended, or none
LiveEntry(h, limiter, ip, t) ==
    IF <<limiter.name, ip>> \in DOMAIN h /\ t < h[<<limiter.name, ip>>].resetTime
    THEN h[<<limiter.name, ip>>]
    ELSE [totalHits |-> 0, resetTime |-> t + limiter.windowMs]

\* store.increment(key): one more hit in the key's window, a new window if
\* the last one has ended
Increment(h, limiter, ip, t) ==
    LET e == LiveEntry(h, limiter, ip, t)
        k == <<limiter.name, ip>>
    IN  [x \in DOMAIN h \cup {k} |->
            IF x = k THEN [e EXCEPT !.totalHits = @ + 1] ELSE h[x]]

\* mutant: the request that reaches the maximum is refused as well
OverLimit_AtMax(h, limiter, ip) == h[<<limiter.name, ip>>].totalHits >= limiter.max

\* totalHits > max: the request is answered 429
OverLimit(h, limiter, ip) == h[<<limiter.name, ip>>].totalHits > limiter.max

\* the limiters a request passes on its way to the handler, in order
LimitersOf(kind) ==
    CASE kind = "register" -> <<ApiLimiter, RegistrationLimiter>>
      [] kind = "forgot" -> <<ApiLimiter, AuthLimiter>>
      [] OTHER -> <<ApiLimiter>>

\* the request's way through the limiters: each one counts the hit and the
\* first one over its maximum answers
RECURSIVE Through(_, _, _, _)
Through(h, chain, ip, t) ==
    IF chain = <<>> THEN [hits |-> h, refusedBy |-> NoLimiter, passedBy |-> {}]
    ELSE LET h1 == Increment(h, Head(chain), ip, t)
         IN  IF OverLimit(h1, Head(chain), ip)
             THEN [hits |-> h1, refusedBy |-> Head(chain), passedBy |-> {}]
             ELSE LET rest == Through(h1, Tail(chain), ip, t)
                  IN  [rest EXCEPT !.passedBy = @ \cup {Head(chain).name}]

-----------------------------------------------------------------------------
(* Routing (routes/authRoutes, routes/userRoutes) and execution *)

RouteStep(db, t, r) ==
    CASE r.kind = "register" -> RegisterStep(db, t, r)
      [] r.kind = "verify" -> VerifyRegistrationStep(db, t, r)
      [] r.kind = "login" -> LoginRouteStep(db, t, r)
      [] r.kind = "forgot" -> ForgotPasswordStep(db, t, r)
      [] r.kind = "reset" -> ResetPasswordStep(db, t, r)
      [] r.kind \in {"logout", "protected"} -> ProtectedRouteStep(db, t, r)

\* a handler run from r's position to its response with nothing in between
RECURSIVE RunToEnd(_, _, _)
RunToEnd(db, t, r) ==
    IF r.pc = "done" THEN [db |-> db, r |-> r]
    ELSE LET out == RouteStep(db, t, r) IN RunToEnd(out.db, t, out.r)

\* the response of a request served on db at time t
Response(db, t, rq) == Answered(RunToEnd(db, t, rq).r)

RegisterRequest(email, mailOk) ==
    NewRequest("register", email, NoPassword, NullToken, "", NoJwt, mailOk)

VerifyRequest(token, password) ==
    NewRequest("verify", NoEmail, password, token, "", NoJwt, TRUE)

LoginRequest(email, password, ip) ==
    NewRequest("login", email, password, NullToken, ip, NoJwt, TRUE)

ForgotRequest(email, mailOk) ==
    NewRequest("forgot", email, NoPassword, NullToken, "", NoJwt, mailOk)

ResetRequest(token, password) ==
    NewRequest("reset", NoEmail, password, token, "", NoJwt, TRUE)

LogoutRequest(bearer) ==
    NewRequest("logout", NoEmail, NoPassword, NullToken, "", bearer, TRUE)

ProtectedRequest(bearer) ==
    NewRequest("protected", NoEmail, NoPassword, NullToken, "", bearer, TRUE)

-----------------------------------------------------------------------------
(* Actions: a request served without interleaving *)

Procs == {1, 2}

NoneInFlight == [p \in Procs |-> Idle]

Install(db) ==
    /\ users' = db.users
    /\ sessions' = db.sessions
    /\ attempts' = db.attempts
    /\ outbox' = db.outbox
    /\ nextTok' = db.nextTok

\* the client keeps the bearer token of a 200 login response
Handed(r) == IF r.rtoken # NoJwt THEN issued \cup {r.rtoken} ELSE issued

Serve(rq) ==
    \E out \in {RunToEnd(Database, now, rq)} :
        /\ Install(out.db)
        /\ issued' = Handed(out.r)
        /\ last' = Answered(out.r)
        /\ UNCHANGED <<now, inflight, hits, passed>>

Register(email, mailOk) ==
    /\ nextTok <= MaxTokens
    /\ Serve(RegisterRequest(email, mailOk))

VerifyRegistration(token, password) == Serve(VerifyRequest(token, password))

Login(email, password, ip) == Serve(LoginRequest(email, password, ip))

\* the ledger holds fewer than n rows
RowsBelow(n) == BagCardinality(attempts) < n

ForgotPassword(email, mailOk) ==
    /\ nextTok <= MaxTokens
    /\ Serve(ForgotRequest(email, mailOk))

ResetPassword(token, password) == Serve(ResetRequest(token, password))

Logout(bearer) == Serve(LogoutRequest(bearer))

GetProtectedData(bearer) == Serve(ProtectedRequest(bearer))

-----------------------------------------------------------------------------
(* Actions: a request from a client address, served through the limiters  *)

\* hits a key has in its running window
LiveCount(limiter, ip) == LiveEntry(hits, limiter, ip, now).totalHits

\* the count of requests a limiter let through, kept per key and window
PassedAfter(th, ip) ==
    [k \in DOMAIN th.hits |->
        IF k[2] = ip /\ (k \notin DOMAIN hits \/ th.hits[k] # hits[k])
        THEN [resetTime |-> th.hits[k].resetTime,
              count |-> (IF k \in DOMAIN passed /\ passed[k].resetTime = th.hits[k].resetTime
                         THEN passed[k].count ELSE 0)
                        + (IF k[1] \in th.passedBy THEN 1 ELSE 0)]
        ELSE passed[k]]

\* the limiter's 429 answer
Refuse(rq, limiter) == Answered(Respond(Database, rq, 429, limiter.message).r)

Limited(ip, rq) ==
    \E th \in {Through(hits, LimitersOf(rq.kind), ip, now)} :
        /\ hits' = th.hits
        /\ passed' = PassedAfter(th, ip)
        /\ IF th.refusedBy # NoLimiter
           THEN /\ last' = Refuse([rq EXCEPT !.ip = ip], th.refusedBy)
                /\ UNCHANGED <<users, sessions, attempts, outbox, nextTok, issued>>
           ELSE \E out \in {RunToEnd(Database, now, [rq EXCEPT !.ip = ip])} :
                    /\ Install(out.db)
                    /\ issued' = Handed(out.r)
                    /\ last' = Answered(out.r)
        /\ UNCHANGED <<now, inflight>>

-----------------------------------------------------------------------------
(* Actions: the clock and the store's TTL monitor *)

\* d minutes pass
Tick(d) ==
    /\ now + d <= MaxTime
    /\ now' = now + d
    /\ UNCHANGED <<users, sessions, attempts, outbox, nextTok, issued, inflight, last, hits, passed>>

ExpiredAttempts == {a \in DOMAIN attempts : a.timestamp + AttemptTTL <= now}

\* LoginAttempt.timestamp, expires: 900
ExpireLoginAttempts ==
    /\ ExpiredAttempts # {}
    /\ attempts' = [a \in DOMAIN attempts \ ExpiredAttempts |-> attempts[a]]
    /\ UNCHANGED <<users, sessions, outbox, nextTok, now, issued, inflight, last, hits, passed>>

ExpiredSessions == {s \in sessions : s.createdAt + SessionTTL <= now}

\* ActiveSession.createdAt, expires: 86400
ExpireActiveSessions ==
    /\ ExpiredSessions # {}
    /\ sessions' = sessions \ ExpiredSessions
    /\ UNCHANGED <<users, attempts, outbox, nextTok, now, issued, inflight, last, hits, passed>>

\* new Date(): the clock is read next at instant t
Advance(t) ==
    /\ t > now
    /\ now' = t
    /\ UNCHANGED <<users, sessions, attempts, outbox, nextTok, issued, inflight, last, hits, passed>>

-----------------------------------------------------------------------------
(* Actions: requests served concurrently, one store operation at a time *)

\* a request arrives on connection p and runs to its first await
Arrive(p, rq) ==
    /\ inflight[p].pc = "idle"
    /\ \E out \in {RouteStep(Database, now, rq)} :
           /\ Install(out.db)
           /\ inflight' = [inflight EXCEPT ![p] = out.r]
           /\ issued' = Handed(out.r)
           /\ last' = IF out.r.pc = "done" THEN Answered(out.r) ELSE last
    /\ UNCHANGED <<now, hits, passed>>

\* the store answers p's pending operation and p runs to its next await
Proceed(p) ==
    /\ inflight[p].pc \notin {"idle", "done"}
    /\ \E out \in {RouteStep(Database, now, inflight[p])} :
           /\ Install(out.db)
           /\ inflight' = [inflight EXCEPT ![p] = out.r]
           /\ issued' = Handed(out.r)
           /\ last' = IF out.r.pc = "done" THEN Answered(out.r) ELSE last
    /\ UNCHANGED <<now, hits, passed>>

\* the response has been sent; the connection is free again
Depart(p) ==
    /\ inflight[p].pc = "done"
    /\ inflight' = [inflight EXCEPT ![p] = Idle]
    /\ UNCHANGED <<users, sessions, attempts, outbox, nextTok, now, issued, last, hits, passed>>

\* tokens that requests in flight have yet to draw
Drawing == {p \in Procs : inflight[p].pc \in {"register_findUser", "forgot_findUser"}}

-----------------------------------------------------------------------------
(* Initial states.  The service starts on empty collections; the states   *)
(* with accounts are the ones the handlers produce from there at time 0.  *)

\* a limiter store without keys
NoHits == [k \in {} |-> 0]

EmptyDatabase ==
    [users |-> <<>>, sessions |-> {}, attempts |-> EmptyBag, outbox |-> {}, nextTok |-> 1]

StartFrom(out) ==
    /\ users = out.db.users
    /\ sessions = out.db.sessions
    /\ attempts = out.db.attempts
    /\ outbox = out.db.outbox
    /\ nextTok = out.db.nextTok
    /\ now = 0
    /\ issued = {}
    /\ inflight = NoneInFlight
    /\ hits = NoHits
    /\ passed = NoHits
    /\ last = Answered(out.r)

\* ann has registered
AfterRegister == RunToEnd(EmptyDatabase, 0, RegisterRequest("ann", TRUE))

\* ann has registered and verified with password1
AfterVerify == RunToEnd(AfterRegister.db, 0, VerifyRequest(1, "password1"))

\* and bob has registered and not verified
AfterSecondRegister == RunToEnd(AfterVerify.db, 0, RegisterRequest("bob", TRUE))

\* ann and bob have registered and verified with password1
AfterSecondVerify == RunToEnd(AfterSecondRegister.db, 0, VerifyRequest(2, "password1"))

\* and cat has registered and not verified
AfterThirdRegister == RunToEnd(AfterSecondVerify.db, 0, RegisterRequest("cat", TRUE))

\* ann has registered, verified and asked for a reset token
AfterForgot == RunToEnd(AfterVerify.db, 0, ForgotRequest("ann", TRUE))

InitEmpty == StartFrom([db |-> EmptyDatabase, r |-> Idle])

InitTwoAccounts == StartFrom(AfterSecondRegister)

InitVerified == StartFrom(AfterVerify)

InitForgot == StartFrom(AfterForgot)

InitThreeAccounts == StartFrom(AfterThirdRegister)

-----------------------------------------------------------------------------
(* Spec: the account life cycle (register, verify, forgot, reset) served  *)
(* one request at a time.                                                 *)

Emails == {"ann", "ANN", "bob"}
Passwords == {"short", "password1"}
Tokens == 1..(MaxTokens + 1)

Init == InitEmpty

Next ==
    \/ \E e \in Emails, ok \in BOOLEAN : Register(e, ok)
    \/ \E tok \in Tokens, pw \in Passwords : VerifyRegistration(tok, pw)
    \/ \E e \in Emails, ok \in BOOLEAN : ForgotPassword(e, ok)
    \/ \E tok \in Tokens, pw \in Passwords : ResetPassword(tok, pw)
    \/ Tick(RegistrationTokenExpiry)

Spec == Init /\ [][Next]_vars

-----------------------------------------------------------------------------
(* SpecLogin: logins and logouts of one verified account (ann), served    *)
(* one at a time while the clock runs over two attempt windows.           *)

LoginEmails == {"ann", "ANN"}
LoginPasswords == {"password1", "password2"}
LoginAddresses == {"10.0.0.1"}
Bearers == issued \cup {NoJwt, ForgedJwt}

NextLogin ==
    \/ \E e \in LoginEmails, pw \in LoginPasswords, ip \in LoginAddresses :
            RowsBelow(MaxAttempts) /\ Login(e, pw, ip)
    \/ \E b \in Bearers : Logout(b)
    \/ (now + TickLen <= MaxLoginTicks * TickLen /\ Tick(TickLen))
    \/ ExpireLoginAttempts

SpecLogin == InitVerified /\ [][NextLogin]_vars

-----------------------------------------------------------------------------
(* SpecOutcomes: every outcome of the login route at one instant, on a    *)
(* store that holds a verified account (ann) and an unverified one (bob); *)
(* cat has no account.                                                    *)

OutcomeEmails == {NoEmail, "ann", "ANN", "bob", "cat"}
OutcomePasswords == {NoPassword, "password1", "password2"}

NextOutcomes ==
    \/ \E e \in OutcomeEmails, pw \in OutcomePasswords, ip \in LoginAddresses :
            RowsBelow(MaxAttempts) /\ Login(e, pw, ip)
    \/ \E b \in Bearers : Logout(b)

SpecOutcomes == InitTwoAccounts /\ [][NextOutcomes]_vars

-----------------------------------------------------------------------------
(* SpecReset: ann logs in, asks for a reset and resets her password while *)
(* logins for addresses without account (bob, cat) fail from the same     *)
(* source, all at one instant.                                            *)

ResetPasswords == {"password1", "password2"}
Strangers == {"bob", "cat"}

NextReset ==
    \/ \E pw \in ResetPasswords, ip \in LoginAddresses :
            RowsBelow(MaxLockRows) /\ Login("ann", pw, ip)
    \/ \E e \in Strangers, ip \in LoginAddresses :
            RowsBelow(MaxLockRows) /\ Login(e, "password1", ip)
    \/ ForgotPassword("ann", TRUE)
    \/ \E tok \in Tokens : ResetPassword(tok, "password2")

SpecReset == InitVerified /\ [][NextReset]_vars

-----------------------------------------------------------------------------
(* SpecConc: two connections serve account requests for one address, one  *)
(* store operation at a time, at one instant.                             *)

ConcEmails == {"ann", "ANN"}

ConcRequests ==
    {RegisterRequest(e, TRUE) : e \in ConcEmails}
        \cup {VerifyRequest(tok, "password1") : tok \in Tokens}
        \cup {ForgotRequest("ann", TRUE)}
        \cup {ResetRequest(tok, "password2") : tok \in Tokens}

\* a request that will draw a token arrives only while one is left for it
TokenLeftFor(rq) ==
    rq.kind \in {"register", "forgot"} => nextTok + Cardinality(Drawing) <= MaxTokens

NextConc ==
    \/ \E p \in Procs, rq \in ConcRequests : TokenLeftFor(rq) /\ Arrive(p, rq)
    \/ \E p \in Procs : Proceed(p)
    \/ \E p \in Procs : Depart(p)

SpecConc == InitEmpty /\ [][NextConc]_vars

-----------------------------------------------------------------------------
(* SpecGuard: ann and bob (verified) log in and out and the protected     *)
(* routes are called with the tokens login handed out, with no token, and *)
(* with tokens signed for any id, expired or not, at one instant.         *)

GuardEmails == {"ann", "bob"}

\* ids a signed token may carry: the three accounts and one that is no account
GuardIds == 1..(Len(AfterThirdRegister.db.users) + 1)

GuardBearers ==
    issued \cup {NoJwt, ForgedJwt, MalformedJwt}
        \cup {SignedJwt(i, exp) : i \in GuardIds, exp \in {0, JwtExpiry}}

NextGuard ==
    \/ \E e \in GuardEmails, ip \in LoginAddresses :
            RowsBelow(MaxAttempts) /\ Login(e, "password1", ip)
    \/ \E b \in GuardBearers : Logout(b)
    \/ \E b \in GuardBearers : GetProtectedData(b)

SpecGuard == InitThreeAccounts /\ [][NextGuard]_vars

-----------------------------------------------------------------------------
(* SpecRecover: ann (verified, password1) asks for a reset token, resets  *)
(* to the same or to another password with any token, and logs in, while  *)
(* the clock moves in steps of the reset token's life.                    *)

NextRecover ==
    \/ ForgotPassword("ann", TRUE)
    \/ \E tok \in Tokens, pw \in ResetPasswords : ResetPassword(tok, pw)
    \/ \E pw \in ResetPasswords, ip \in LoginAddresses :
            RowsBelow(MaxRecoverRows) /\ Login("ann", pw, ip)
    \/ (now + PasswordResetExpiry <= MaxLoginTicks * TickLen /\ Tick(PasswordResetExpiry))

SpecRecover == InitVerified /\ [][NextRecover]_vars

-----------------------------------------------------------------------------
(* SpecSessions: two connections serve ann's logins, logouts and password *)
(* resets, one store operation at a time, while the clock may tick.       *)

SessionRequests ==
    {LoginRequest("ann", "password1", ip) : ip \in LoginAddresses}
        \cup {LogoutRequest(b) : b \in issued}
        \cup {ResetRequest(AfterForgot.db.nextTok - 1, "password1")}

\* logins on their way to the ledger
LoggingIn == {p \in Procs : inflight[p].kind = "login" /\ inflight[p].pc # "idle"}

\* a login arrives only while the ledger has room for its row
RowLeftFor(rq) ==
    rq.kind = "login" => BagCardinality(attempts) + Cardinality(LoggingIn) < MaxSessionRows

NextSessions ==
    \/ \E p \in Procs, rq \in SessionRequests : RowLeftFor(rq) /\ Arrive(p, rq)
    \/ \E p \in Procs : Proceed(p)
    \/ \E p \in Procs : Depart(p)
    \/ (now + TickLen <= MaxSessionTicks * TickLen /\ Tick(TickLen))

SpecSessions == InitForgot /\ [][NextSessions]_vars

-----------------------------------------------------------------------------
(* SpecLimits: one source sends register, forgot-password and other       *)
(* requests through the limiters until each budget is used up, a second   *)
(* source registers once, and the clock moves by one general window when  *)
(* the first source has used its budgets up.  The requests are ones their *)
(* handlers answer without writing.                                       *)

LimitSources == {"10.0.0.1", "10.0.0.2"}

LimitRequests ==
    {RegisterRequest("ann", TRUE), ForgotRequest("cat", TRUE), ResetRequest(1, "password1")}

\* a source goes on while it is below the hits it may reach at each limiter
\* on the request's way; the second source only registers
HitsLeftFor(ip, rq) ==
    /\ LiveCount(ApiLimiter, ip) < MaxApiHits
    /\ rq.kind = "register" => LiveCount(RegistrationLimiter, ip) < MaxRegistrationHits
    /\ rq.kind = "forgot" => LiveCount(AuthLimiter, ip) < MaxAuthHits
    /\ ip # "10.0.0.1" => rq.kind = "register" /\ LiveCount(ApiLimiter, ip) < 1

BudgetsUsed(ip) ==
    /\ LiveCount(ApiLimiter, ip) >= ApiMax
    /\ LiveCount(RegistrationLimiter, ip) >= RegistrationMax
    /\ LiveCount(AuthLimiter, ip) >= AuthMax

NextLimits ==
    \/ \E ip \in LimitSources, rq \in LimitRequests : HitsLeftFor(ip, rq) /\ Limited(ip, rq)
    \/ (now + ApiWindow <= MaxLimitTicks * ApiWindow /\ BudgetsUsed("10.0.0.1") /\ Tick(ApiWindow))

SpecLimits == InitVerified /\ [][NextLimits]_vars

-----------------------------------------------------------------------------
(* SpecLockEnds: logins of the verified account with the right and a      *)
(* wrong password, looked at when the window of the failed rows and the   *)
(* lifetime of a session end and shortly after, with the store's TTL      *)
(* monitor deleting rows and sessions at times of its own.                *)

Deadlines == {AttemptWindow, SessionTTL}

LockInstants == Deadlines \cup {d + MaxLate : d \in Deadlines}

NextLockEnds ==
    \/ \E pw \in LoginPasswords, ip \in LoginAddresses :
            RowsBelow(MaxEndRows) /\ Login("ann", pw, ip)
    \/ \E t \in LockInstants : Advance(t)
    \/ ExpireLoginAttempts
    \/ ExpireActiveSessions

SpecLockEnds == InitVerified /\ [][NextLockEnds]_vars

-----------------------------------------------------------------------------
(* SpecRace: logins for the verified account with the right and a wrong   *)
(* password on two connections, one store operation at a time.  Nothing   *)
(* removes a session here, so two logins answered 200 have overlapped.    *)

RaceRequests == {LoginRequest("ann", pw, ip) : pw \in LoginPasswords, ip \in LoginAddresses}

NextRace ==
    \/ \E p \in Procs, rq \in RaceRequests :
            /\ BagCardinality(attempts) + Cardinality(LoggingIn) < MaxRaceRows
            /\ Arrive(p, rq)
    \/ \E p \in Procs : Proceed(p)
    \/ \E p \in Procs : Depart(p)

SpecRace == InitVerified /\ [][NextRace]_vars

-----------------------------------------------------------------------------
(* Properties of the account life cycle, checked under Spec *)

AccountsFor(us, email) == {i \in UserIds(us) : us[i].email = email}

\* validity of a token as a registration token: "valid", "expired" or "unknown"
RegistrationValidity(token) ==
    IF \E i \in UserIds(users) : users[i].registrationToken = token
                                    /\ users[i].registrationTokenExpires > now
    THEN "valid"
    ELSE IF \E i \in UserIds(users) : users[i].registrationToken = token
    THEN "expired"
    ELSE "unknown"

\* validity of a token as a password reset token
ResetValidity(token) ==
    IF \E i \in UserIds(users) : users[i].passwordResetToken = token
                                    /\ users[i].passwordResetExpires > now
    THEN "valid"
    ELSE IF \E i \in UserIds(users) : users[i].passwordResetToken = token
    THEN "expired"
    ELSE "unknown"

C7_InvalidTokenGeneric ==
    [][\A tok \in Tokens, pw \in Passwords :
        (VerifyRegistration(tok, pw) /\ pw # NoPassword /\ tok # NullToken
            /\ RegistrationValidity(tok) \in {"unknown", "expired"})
        => /\ last'.status = 400
           /\ last'.message = "Invalid or expired token"
           /\ users' = users]_vars

\* C7 witness: a verification with a short password and a token that an
\* account still holds, expired, was answered with the generic error
C7_Witness ==
    /\ last.kind = "verify" /\ last.status = 400
    /\ last.message = "Invalid or expired token"
    /\ last.password = "short"
    /\ RegistrationValidity(last.token) = "expired"

\* C8: a successful VerifyRegistration (unexpired matching token, password of
\* at least 8 characters) sets the password to the supplied one, isVerified
\* to true, both registration token fields to null, and changes no other user.
C8_VerifySuccess ==
    [][\A tok \in Tokens, pw \in Passwords :
        (VerifyRegistration(tok, pw) /\ RegistrationValidity(tok) = "valid"
            /\ Len(pw) >= MinPasswordLength)
        => LET i == CHOOSE j \in UserIds(users) :
                        users[j].registrationToken = tok
                        /\ users[j].registrationTokenExpires > now
           IN  /\ last'.status = 200
               /\ Len(users') = Len(users)
               /\ ComparePassword(pw, users'[i].password)
               /\ users'[i].isVerified
               /\ users'[i].registrationToken = NullToken
               /\ users'[i].registrationTokenExpires = NullDate
               /\ \A j \in UserIds(users) : j # i => users'[j] = users[j]]_vars

\* C8 witness: a verification succeeded while a second account exists
C8_Witness ==
    /\ last.kind = "verify" /\ last.status = 200
    /\ Len(users) = 2
    /\ \E i \in UserIds(users) :
          /\ users[i].isVerified
          /\ ComparePassword(last.password, users[i].password)
          /\ users[i].registrationToken = NullToken

\* C9 (as claimed): a password shorter than 8 characters is rejected alike by
\* VerifyRegistration and ResetPassword whenever the two tokens have the same
\* validity: both answer 400 "Password should be at least 8 characters long"
\* and change nothing.
C9_ShortPasswordAlike ==
    \A t1 \in Tokens, t2 \in Tokens, pw \in Passwords :
        (pw # NoPassword /\ Len(pw) < MinPasswordLength
            /\ t1 # NullToken /\ t2 # NullToken
            /\ RegistrationValidity(t1) = ResetValidity(t2))
        => LET v == RunToEnd(Database, now, VerifyRequest(t1, pw))
               s == RunToEnd(Database, now, ResetRequest(t2, pw))
           IN  /\ v.r.status = 400 /\ s.r.status = 400
               /\ v.r.message = "Password should be at least 8 characters long"
               /\ s.r.message = v.r.message
               /\ v.db = Database /\ s.db = Database

-----------------------------------------------------------------------------
(* Properties of the login route, checked under SpecLogin and SpecOutcomes *)

\* failed rows of the last 15 minutes for an address, counted from the ledger
WindowFailuresOfEmail(email) ==
    SumOver(attempts, {a \in DOMAIN attempts :
        a.email = email /\ a.successful = FALSE /\ now - a.timestamp <= AttemptWindow})

\* failed rows of the last 15 minutes from a source address
WindowFailuresOfIp(ip) ==
    SumOver(attempts, {a \in DOMAIN attempts :
        a.ip = ip /\ a.successful = FALSE /\ now - a.timestamp <= AttemptWindow})

\* the account of an address, whatever its case
AccountOf(email) == {i \in UserIds(users) : users[i].email = ToLowerCase(email)}

HoldsSession(email) == \E i \in AccountOf(email), s \in sessions : s.userId = i

CorrectPassword(email, password) ==
    \E i \in AccountOf(email) :
        users[i].isVerified /\ ComparePassword(password, users[i].password)

\* C1: whenever 5 or more failed rows for an address lie within the last 15
\* minutes, a login for it is answered 429 whatever the password; no token
\* is issued and no session is created.
C1_EmailLockout ==
    [][\A e \in LoginEmails, pw \in LoginPasswords, ip \in LoginAddresses :
        (Login(e, pw, ip) /\ WindowFailuresOfEmail(ToLowerCase(e)) >= 5)
        => /\ last'.status = 429
           /\ last'.rtoken = NoJwt
           /\ issued' = issued
           /\ sessions' = sessions]_vars

\* C1 witness: a login with the correct password of the verified account was
\* answered 429 while 5 failed rows lie in the window and no session exists
C1_Witness ==
    /\ last.kind = "login" /\ last.status = 429
    /\ CorrectPassword(last.email, last.password)
    /\ WindowFailuresOfEmail(ToLowerCase(last.email)) >= 5
    /\ sessions = {}

\* C2: while a session record exists for the account of an address and
\* neither the address nor the source is locked out, a login for the address
\* is answered 409 whatever the password, and no attempt is recorded.
C2_SessionConflict ==
    [][\A e \in LoginEmails, pw \in LoginPasswords, ip \in LoginAddresses :
        (Login(e, pw, ip) /\ HoldsSession(e)
            /\ WindowFailuresOfEmail(ToLowerCase(e)) < 5
            /\ WindowFailuresOfIp(ip) < 10)
        => /\ last'.status = 409
           /\ attempts' = attempts
           /\ sessions' = sessions]_vars

\* C2 witness: a login with a wrong password was answered 409 while the
\* session exists
C2_Witness ==
    /\ last.kind = "login" /\ last.status = 409
    /\ HoldsSession(last.email)
    /\ ~CorrectPassword(last.email, last.password)
    /\ last.password # NoPassword

\* the row the claim expects of a login request
ExpectedAttempt(e, ip, status) ==
    [email |-> ToLowerCase(e), ip |-> ip, successful |-> (status = 200), timestamp |-> now]

\* C10 (as claimed): every login request that carries an email creates exactly
\* one row for the lowercased address and the source, successful exactly when
\* the response is 200, whatever the outcome.
C10_EveryLoginRecorded ==
    [][\A e \in OutcomeEmails, pw \in OutcomePasswords, ip \in LoginAddresses :
        (Login(e, pw, ip) /\ e # NoEmail)
        => attempts' = attempts (+) SetToBag({ExpectedAttempt(e, ip, last'.status)})]_vars

\* C10 (amended): a login request that carries an email is answered 200, 400,
\* 401, 409 or 429; answered 200, 400 or 401 it creates exactly one row for
\* the lowercased address and the source, successful exactly when the
\* response is 200; answered 429 or 409 by the limiter it creates none.
C10_AdmittedLoginRecorded ==
    [][\A e \in OutcomeEmails, pw \in OutcomePasswords, ip \in LoginAddresses :
        (Login(e, pw, ip) /\ e # NoEmail)
        => /\ last'.status \in {200, 400, 401, 409, 429}
           /\ last'.status \in {409, 429} => attempts' = attempts
           /\ last'.status \in {200, 400, 401} =>
                attempts' = attempts (+) SetToBag({ExpectedAttempt(e, ip, last'.status)})]_vars

\* C10 witness: a login as "ANN" was answered 200 and its row is in the
\* ledger, lowercased and successful
C10_Witness ==
    /\ last.kind = "login" /\ last.email = "ANN" /\ last.status = 200
    /\ [email |-> "ann", ip |-> last.ip, successful |-> TRUE, timestamp |-> now]
            \in DOMAIN attempts

-----------------------------------------------------------------------------
(* Properties of a password reset under a session, checked under SpecReset *)

\* the user a reset token is valid for
ResetTarget(token) ==
    {i \in UserIds(users) : users[i].passwordResetToken = token
                              /\ users[i].passwordResetExpires > now}

\* the answer a fresh login with the new password would get after the step
FreshLoginStatus(i, password, ip) ==
    Response(Database', now', LoginRequest(users[i].email, password, ip)).status

\* C3 (as claimed): after a successful ResetPassword for a user who holds a
\* session, the session is gone, the bearer tokens issued to the user before
\* are still accepted by the guard, and a fresh login with the new password
\* is answered 200.
C3_ResetFreesLogin ==
    [][\A tok \in Tokens, ip \in LoginAddresses :
        \A i \in ResetTarget(tok) :
            (ResetPassword(tok, "password2") /\ last'.status = 200
                /\ SessionsOf(sessions, i) # {})
            => /\ SessionsOf(sessions', i) = {}
               /\ \A b \in issued : b.id = i => ProtectAccepts(users', now', b)
               /\ FreshLoginStatus(i, "password2", ip) = 200]_vars

\* C3 (amended): after a successful ResetPassword for a user who holds a
\* session, the session is gone, the unexpired bearer tokens issued to the
\* user before are still accepted by the guard, and a fresh login with the
\* new password is never answered 409: it is answered 429 when the address or
\* the source is locked out by failed rows of the last 15 minutes, and 200
\* otherwise.
C3_ResetFreesLoginUnlessLocked ==
    [][\A tok \in Tokens, ip \in LoginAddresses :
        \A i \in ResetTarget(tok) :
            (ResetPassword(tok, "password2") /\ last'.status = 200
                /\ SessionsOf(sessions, i) # {})
            => /\ SessionsOf(sessions', i) = {}
               /\ \A b \in issued :
                    (b.id = i /\ now' < b.exp) => ProtectAccepts(users', now', b)
               /\ FreshLoginStatus(i, "password2", ip) =
                    IF \/ WindowFailuresOfEmail(users[i].email) >= EmailFailLimit
                       \/ WindowFailuresOfIp(ip) >= IpFailLimit
                    THEN 429 ELSE 200]_vars

\* C3 witness: a reset has just removed its user's session while the token
\* of that session is in a client's hands
C3_Witness ==
    /\ last.kind = "reset" /\ last.status = 200 /\ last.deletedCount = 1
    /\ sessions = {}
    /\ \E i \in UserIds(users), b \in issued :
          /\ b.id = i
          /\ ComparePassword("password2", users[i].password)
          /\ users[i].passwordResetToken = NullToken

-----------------------------------------------------------------------------
(* Properties of overlapping requests, checked under SpecConc *)

\* C5: however Register requests for one address interleave, the user
\* collection never holds two accounts for that address.
C5_NeverTwoAccounts ==
    \A i \in UserIds(users), j \in UserIds(users) :
        users[i].email = users[j].email => i = j

\* C5 witness: two Register requests for one address both looked the address
\* up before either created it; one created the account and the other's
\* create was refused
C5_Witness ==
    /\ Len(users) = 1
    /\ \A p \in Procs :
          /\ inflight[p].kind = "register"
          /\ ToLowerCase(inflight[p].email) = users[1].email
          /\ inflight[p].pc = "done"
          /\ inflight[p].user = NoUser
    /\ {inflight[p].status : p \in Procs} = {201, 500}

\* C6 (as claimed): in every reachable state, under any interleaving of
\* Register, VerifyRegistration, ForgotPassword and ResetPassword requests, a
\* user whose registrationToken is non-null has isVerified = false.
C6_TokenImpliesUnverified ==
    \A i \in UserIds(users) :
        users[i].registrationToken # NullToken => ~users[i].isVerified

-----------------------------------------------------------------------------
(* Properties of the login handler's answers, checked under SpecOutcomes *)

\* the limiter lets a login for the address from the source through to login
Admitted(email, ip) ==
    /\ WindowFailuresOfEmail(ToLowerCase(email)) < EmailFailLimit
    /\ WindowFailuresOfIp(ip) < IpFailLimit
    /\ ~HoldsSession(email)

\* the ledger after one more failed row for the address and the source
WithFailedRow(email, ip) ==
    attempts (+) SetToBag({[email |-> ToLowerCase(email), ip |-> ip,
                            successful |-> FALSE, timestamp |-> now]})

\* C11: in every state, login answers an address with no account and a
\* verified account with a wrong password alike: status 401, message
\* "Invalid credentials", no token, one failed row recorded, no session
\* created.
C11_UnknownAndWrongAlike ==
    \A e1 \in OutcomeEmails, e2 \in OutcomeEmails, ip \in LoginAddresses :
      \A pw1 \in OutcomePasswords, pw2 \in OutcomePasswords :
        (/\ e1 # NoEmail /\ pw1 # NoPassword /\ pw2 # NoPassword
         /\ AccountOf(e1) = {}
         /\ \E i \in AccountOf(e2) : users[i].isVerified
         /\ ~CorrectPassword(e2, pw2)
         /\ Admitted(e1, ip) /\ Admitted(e2, ip))
        => \E a \in {RunToEnd(Database, now, LoginRequest(e1, pw1, ip))},
              b \in {RunToEnd(Database, now, LoginRequest(e2, pw2, ip))} :
              /\ a.r.status = 401 /\ b.r.status = 401
              /\ a.r.message = "Invalid credentials" /\ b.r.message = a.r.message
              /\ a.r.rtoken = NoJwt /\ b.r.rtoken = NoJwt
              /\ a.db.attempts = WithFailedRow(e1, ip)
              /\ b.db.attempts = WithFailedRow(e2, ip)
              /\ a.db.sessions = sessions /\ b.db.sessions = sessions

\* C11 witness: a login for an address without account has just been
\* answered 401 and recorded, while a login for the verified account with a
\* wrong password would be admitted too
C11_Witness ==
    /\ last.kind = "login" /\ last.status = 401 /\ last.email = "cat"
    /\ AccountOf(last.email) = {}
    /\ \E a \in DOMAIN attempts : a.email = "cat" /\ ~a.successful
    /\ Admitted("cat", last.ip) /\ Admitted("ANN", last.ip)
    /\ ~CorrectPassword("ANN", "password2")
    /\ \E i \in AccountOf("ANN") : users[i].isVerified

-----------------------------------------------------------------------------
(* Properties of forgotPassword's answers, checked under Spec *)

\* the address has a verified account
VerifiedAccount(email) == \E i \in AccountOf(email) : users[i].isVerified

\* status and message of forgotPassword's answer in the current state
ForgotAnswer(email, mailOk) ==
    LET a == Response(Database, now, ForgotRequest(email, mailOk))
    IN  <<a.status, a.message>>

-----------------------------------------------------------------------------
(* Properties of the guard and of logout, checked under SpecGuard *)

\* tokens that fail jwt.verify: wrongly signed, malformed, expired
FailingBearers ==
    {b \in GuardBearers : b # NoJwt /\ (b.key # JwtSecret \/ now >= b.exp)}

\* status and message of the guarded routes' answer to a bearer token
GuardAnswer(db, t, kind, bearer) ==
    LET a == Response(db, t, NewRequest(kind, NoEmail, NoPassword, NullToken, "", bearer, TRUE))
    IN  <<a.status, a.message>>

GuardedKinds == {"logout", "protected"}

\* C13 (as claimed): the guard answers a token that is expired, malformed or
\* wrongly signed with the same 401 message as a request without token.
C13_FailedTokenLikeMissing ==
    \A b \in FailingBearers, k \in GuardedKinds :
        /\ GuardAnswer(Database, now, k, b)[1] = 401
        /\ GuardAnswer(Database, now, k, b) = GuardAnswer(Database, now, k, NoJwt)

\* C13 (amended): the guard answers a token that is expired, malformed or
\* wrongly signed with status 401 and the one message "Not authorized, token
\* failed", and a request without token with status 401 and the message
\* "Not authorized, no token provided".
C13_FailedTokensShareMessage ==
    \A b \in FailingBearers, k \in GuardedKinds :
        /\ GuardAnswer(Database, now, k, b) = <<401, "Not authorized, token failed">>
        /\ GuardAnswer(Database, now, k, NoJwt) = <<401, "Not authorized, no token provided">>

\* C13 witness: an expired token with a good signature for a verified user
\* has just been answered 401 "Not authorized, token failed"
C13_Witness ==
    /\ last.kind = "protected" /\ last.status = 401
    /\ last.message = "Not authorized, token failed"
    /\ last.bearer.key = JwtSecret /\ now >= last.bearer.exp
    /\ last.bearer.id \in UserIds(users) /\ users[last.bearer.id].isVerified

\* the token is well signed and unexpired and names a verified user
ValidBearer(b) ==
    /\ b # NoJwt
    /\ b.key = JwtSecret /\ now < b.exp
    /\ b.id \in UserIds(users) /\ users[b.id].isVerified

\* C14: the guard lets a request through to logout or to the protected
\* resource exactly when its token is well signed and unexpired and names an
\* existing user with isVerified = true; otherwise the answer is 401 and the
\* handler has done nothing.
C14_GuardAdmitsIff ==
    [][\A b \in GuardBearers :
        /\ GetProtectedData(b) =>
              IF ValidBearer(b)
              THEN /\ last'.status = 200
                   /\ last'.message = "You have access to protected data"
              ELSE /\ last'.status = 401
                   /\ Database' = Database
        /\ Logout(b) =>
              IF ValidBearer(b)
              THEN /\ last'.status = 200
                   /\ last'.message = "Logged out successfully"
              ELSE /\ last'.status = 401
                   /\ Database' = Database]_vars

\* C14 witness: a well signed, unexpired token naming the unverified account
\* has just been refused
C14_Witness ==
    /\ last.kind = "protected" /\ last.status = 401
    /\ last.message = "Please verify your email first"
    /\ last.bearer.key = JwtSecret /\ now < last.bearer.exp
    /\ last.bearer.id \in UserIds(users) /\ ~users[last.bearer.id].isVerified

\* C15: the guard's answer to a token is the same whatever the session
\* registry holds: it does not change when a step adds or removes session
\* records, it is the same on an empty registry, and a token handed out by
\* login is accepted right after logout has deleted the user's session.
C15_GuardIgnoresSessions ==
    [][\A b \in GuardBearers, k \in GuardedKinds :
        /\ GuardAnswer(Database', now', k, b) = GuardAnswer(Database, now, k, b)
        /\ GuardAnswer([Database EXCEPT !.sessions = {}], now, k, b)
                = GuardAnswer(Database, now, k, b)
        /\ (Logout(b) /\ last'.status = 200 /\ b \in issued
                /\ SessionsOf(sessions, b.id) # {})
           => /\ SessionsOf(sessions', b.id) = {}
              /\ GuardAnswer(Database', now', "protected", b)[1] = 200]_vars

\* C15 witness: the protected resource has just been served to a token that
\* login handed out and whose user has no session record any more
C15_Witness ==
    /\ last.kind = "protected" /\ last.status = 200
    /\ last.bearer \in issued
    /\ SessionsOf(sessions, last.bearer.id) = {}
    /\ \E a \in DOMAIN attempts : a.successful /\ a.email = users[last.bearer.id].email

\* C16: logout by an authenticated user returns 200 and leaves no session
\* record for that user, whether or not one existed; the records of other
\* users stay as they are; a second logout with the same token returns 200
\* again and leaves the registry as it is.
C16_LogoutIdempotent ==
    [][\A b \in GuardBearers :
        (Logout(b) /\ ValidBearer(b))
        => /\ last'.status = 200
           /\ SessionsOf(sessions', b.id) = {}
           /\ sessions' = {s \in sessions : s.userId # b.id}
           /\ \E again \in {RunToEnd(Database', now', LogoutRequest(b))} :
                 /\ again.r.status = 200
                 /\ again.db.sessions = sessions']_vars

\* C16 witness: a logout has just been answered 200 although the user held no
\* session record, while the other user's record is in the registry
C16_Witness ==
    /\ last.kind = "logout" /\ last.status = 200 /\ last.deletedCount = 0
    /\ last.bearer \in issued
    /\ \E s \in sessions : s.userId # last.bearer.id

-----------------------------------------------------------------------------
(* Properties of a successful login, checked under SpecLogin *)

\* C17: a login that the limiter admits and that carries the correct password
\* of a verified user returns 200 with a token that embeds the user's id and
\* verifies, leaves exactly one session record for the user, holding that
\* token, and adds one successful row to the ledger.
C17_LoginSuccess ==
    [][\A e \in LoginEmails, pw \in LoginPasswords, ip \in LoginAddresses :
        (Login(e, pw, ip) /\ Admitted(e, ip) /\ CorrectPassword(e, pw))
        => \A i \in AccountOf(e) :
              /\ last'.status = 200
              /\ last'.rtoken.id = i
              /\ JwtVerifies(last'.rtoken, now')
              /\ last'.rtoken.exp = now + JwtExpiry
              /\ SessionsOf(sessions', i) = {NewSession(i, last'.rtoken, now)}
              /\ attempts' = attempts (+) SetToBag({[email |-> ToLowerCase(e), ip |-> ip,
                                  successful |-> TRUE, timestamp |-> now]})]_vars

\* C17 witness: a login after earlier failures has just been answered 200;
\* the user's one session record holds the token of the answer
C17_Witness ==
    /\ last.kind = "login" /\ last.status = 200
    /\ last.rtoken \in issued
    /\ \E i \in AccountOf(last.email) :
          SessionsOf(sessions, i) = {NewSession(i, last.rtoken, now)}
    /\ \E a \in DOMAIN attempts : a.successful /\ a.timestamp = now
    /\ \E a \in DOMAIN attempts : ~a.successful

-----------------------------------------------------------------------------
(* Properties of resetPassword, checked under SpecRecover *)

\* the passwords among the inputs that login accepts for user i
AcceptedPasswords(i) == {pw \in ResetPasswords : ComparePassword(pw, users[i].password)}

\* after the step the limiter would admit a login for user i's address
AdmittedNext(i, ip) == Admitted(users[i].email, ip)'

\* resetPassword's answer to a token that matches no unexpired reset token
ResetRefused ==
    /\ last'.status = 400
    /\ last'.message = "Invalid or expired reset token"
    /\ users' = users
    /\ sessions' = sessions

-----------------------------------------------------------------------------
(* Properties of the session registry, checked under SpecSessions *)

\* C19: in every reachable state, however logins, logouts and password
\* resets interleave, the session registry holds at most one record per user.
C19_OneSessionPerUser ==
    \A s1 \in sessions, s2 \in sessions : s1.userId = s2.userId => s1 = s2

\* C19 witness: two logins of one user overlapped; one created the session
\* record and the other's create was refused and answered 500
C19_Witness ==
    /\ Cardinality(sessions) = 1
    /\ \A p \in Procs : inflight[p].kind = "login" /\ inflight[p].pc = "done"
    /\ {inflight[p].status : p \in Procs} = {200, 500}

-----------------------------------------------------------------------------
(* Precedence of the lockout over the session conflict, checked under     *)
(* SpecReset                                                              *)

\* the ledger with five more failed rows for the address from another source
WithEmailLockout(email) ==
    attempts (+) [a \in {[email |-> ToLowerCase(email), ip |-> "10.0.0.9",
                          successful |-> FALSE, timestamp |-> now]} |-> EmailFailLimit]

\* C20: a login that meets a lockout (5 or more failed rows for the address
\* or 10 or more from the source in the last 15 minutes) and a session record
\* of the address's user is answered 429, not 409, and changes nothing.  The
\* lockout of the source is met on the way; the lockout of the address is
\* also tried on the ledger of each state with five failed rows added.
C20_LockoutBeforeConflict ==
    [][\A pw \in ResetPasswords, ip \in LoginAddresses :
        /\ (/\ Login("ann", pw, ip)
            /\ HoldsSession("ann")
            /\ \/ WindowFailuresOfEmail("ann") >= EmailFailLimit
               \/ WindowFailuresOfIp(ip) >= IpFailLimit)
           => /\ last'.status = 429
              /\ Database' = Database
        /\ HoldsSession("ann")
           => Response([Database EXCEPT !.attempts = WithEmailLockout("ann")], now,
                       LoginRequest("ann", pw, ip)).status = 429]_vars

\* C20 witness: a login of the user who holds a session has just been
\* answered 429 because of ten failed rows from its source
C20_Witness ==
    /\ last.kind = "login" /\ last.status = 429 /\ last.email = "ann"
    /\ HoldsSession("ann")
    /\ WindowFailuresOfIp(last.ip) >= IpFailLimit
    /\ WindowFailuresOfEmail("ann") < EmailFailLimit


-----------------------------------------------------------------------------
(* Properties of the fixed-window limiters, checked under SpecLimits *)

\* the budgets a request of a kind draws on: <<limiter, requests, minutes>>
Budgets(kind) ==
    {<<"api", 100, 15>>}
        \cup (IF kind = "register" THEN {<<"registration", 3, 60>>} ELSE {})
        \cup (IF kind = "forgot" THEN {<<"auth", 5, 15>>} ELSE {})

AllBudgets == Budgets("register") \cup Budgets("forgot")

\* hits of a source in the running window of a budget
Running(name, ip) ==
    IF <<name, ip>> \in DOMAIN hits /\ now < hits[<<name, ip>>].resetTime
    THEN hits[<<name, ip>>].totalHits ELSE 0

Exhausted(kind, ip) == {b \in Budgets(kind) : Running(b[1], ip) >= b[2]}

TooManyMessages ==
    {"Too many requests, please try again after 15 minutes",
     "Too many authentication attempts, please try again after 15 minutes",
     "Too many registration attempts, please try again after 1 hour"}

\* C21: per source address and fixed window, at most 3 register requests an
\* hour, 5 forgot-password requests in 15 minutes and 100 requests overall in
\* 15 minutes are let through; a request beyond a budget is answered 429 and
\* its handler does not run, a request within its budgets reaches its
\* handler, and a request touches only the budgets of its own source and
\* route class
C21_FixedWindows ==
    [][/\ \A k \in DOMAIN passed' : \A b \in AllBudgets :
            b[1] = k[1] => /\ passed'[k].count <= b[2]
                           /\ passed'[k].resetTime <= now' + b[3]
       /\ \A ip \in LimitSources, rq \in LimitRequests :
            Limited(ip, rq) =>
              /\ Exhausted(rq.kind, ip) # {}
                    => /\ last'.status = 429
                       /\ last'.message \in TooManyMessages
                       /\ Database' = Database
              /\ Exhausted(rq.kind, ip) = {}
                    => last' = Answered(RunToEnd(Database, now, [rq EXCEPT !.ip = ip]).r)
              /\ \A b \in Budgets(rq.kind) :
                    (/\ Running(b[1], ip) = 0
                     /\ <<b[1], ip>> \in DOMAIN hits'
                     /\ (<<b[1], ip>> \in DOMAIN hits => hits'[<<b[1], ip>>] # hits[<<b[1], ip>>]))
                        => hits'[<<b[1], ip>>].resetTime = now + b[3]
              /\ \A k \in DOMAIN hits :
                    (k[2] # ip \/ k[1] \notin {b[1] : b \in Budgets(rq.kind)})
                        => hits'[k] = hits[k] /\ passed'[k] = passed[k]
      ]_vars

\* the first source has used all three budgets up and been refused, and the
\* second source's registration went through
C21_Witness ==
    /\ Running("api", "10.0.0.1") = ApiMax + 1
    /\ Running("registration", "10.0.0.1") = RegistrationMax + 1
    /\ Running("auth", "10.0.0.1") = AuthMax + 1
    /\ passed[<<"registration", "10.0.0.1">>].count = RegistrationMax
    /\ passed[<<"auth", "10.0.0.1">>].count = AuthMax
    /\ <<"registration", "10.0.0.2">> \in DOMAIN passed
    /\ passed[<<"registration", "10.0.0.2">>].count = 1
    /\ last.status = 429

-----------------------------------------------------------------------------
(* Properties of register, checked under Spec *)

\* the account a register for an address without account has just created
CreatedFor(e) ==
    /\ Len(users') = Len(users) + 1
    /\ SubSeq(users', 1, Len(users)) = users
    /\ AccountsFor(users', ToLowerCase(e)) = {Len(users')}
    /\ ~users'[Len(users')].isVerified
    /\ users'[Len(users')].registrationToken # NullToken
    /\ users'[Len(users')].registrationTokenExpires > now

\* register without an address is refused and writes nothing
RefusedWithoutEmail ==
    \A ok \in BOOLEAN :
        LET out == RunToEnd(Database, now, RegisterRequest(NoEmail, ok))
        IN  /\ out.r.status = 400
            /\ out.r.message = "Email is required"
            /\ out.db = Database

\* C22 as stated: a register for an address that has no account is answered
\* 201 and creates exactly one unverified account for it, with a registration
\* token and an expiry later than now; without an address it is answered 400
\* "Email is required" and creates nothing
C22_RegisterCreates ==
    [][/\ \A e \in Emails, ok \in BOOLEAN :
            (Register(e, ok) /\ AccountsFor(users, ToLowerCase(e)) = {})
                => last'.status = 201 /\ CreatedFor(e)
       /\ RefusedWithoutEmail]_vars

\* C22 (amended): a register for an address that has no account creates
\* exactly one unverified account for it, with a registration token and an
\* expiry later than now, and is answered 201 when the verification mail is
\* accepted by the transporter and 500 "Server error" when it is not (the
\* account stays); without an address it is answered 400 "Email is required"
\* and creates nothing
C22_RegisterCreatesMailOrNot ==
    [][/\ \A e \in Emails, ok \in BOOLEAN :
            (Register(e, ok) /\ AccountsFor(users, ToLowerCase(e)) = {})
                => /\ CreatedFor(e)
                   /\ ok => /\ last'.status = 201
                            /\ [kind |-> "verification", to |-> e,
                                token |-> users'[Len(users')].registrationToken] \in outbox'
                   /\ ~ok => /\ last'.status = 500
                             /\ last'.message = "Server error"
                             /\ outbox' = outbox
       /\ RefusedWithoutEmail]_vars

\* C22 witness: bob has just been registered next to ann: answered 201, his
\* account unverified with a live token
C22_Witness ==
    /\ last.kind = "register" /\ last.email = "bob" /\ last.status = 201
    /\ Len(users) = 2
    /\ AccountsFor(users, "bob") = {2}
    /\ ~users[2].isVerified
    /\ users[2].registrationToken # NullToken
    /\ users[2].registrationTokenExpires > now

-----------------------------------------------------------------------------
(* Properties of the login route's answers, checked under SpecOutcomes *)

\* C24: a login request through the login route with neither address nor
\* password is answered 400 "Email and password are required"
C24_MissingCredentials ==
    [][\A ip \in LoginAddresses :
        Login(NoEmail, NoPassword, ip)
            => /\ last'.status = 400
               /\ last'.message = "Email and password are required"]_vars

\* the passwords tried on an unverified account: those of the requests and
\* the placeholder the account was created with
TriedPasswords == (OutcomePasswords \ {NoPassword}) \cup {"temporary_password"}

\* C25: a login for the address of an unverified account is never answered
\* 200 and never creates a session, whatever the password; when the limiter
\* lets it through it is answered 401 "Please verify your email first" and a
\* failed row is recorded; every session record belongs to a verified account
C25_UnverifiedNeverLogsIn ==
    /\ \A s \in sessions : FindById(users, s.userId).isVerified
    /\ \A e \in OutcomeEmails, pw \in TriedPasswords, ip \in LoginAddresses :
        (\E i \in AccountOf(e) : ~users[i].isVerified)
        => \E out \in {RunToEnd(Database, now, LoginRequest(e, pw, ip))} :
              /\ out.r.status # 200
              /\ out.r.rtoken = NoJwt
              /\ out.db.sessions = sessions
              /\ Admitted(e, ip) => /\ out.r.status = 401
                                    /\ out.r.message = "Please verify your email first"
                                    /\ out.db.attempts = WithFailedRow(e, ip)

\* C25 witness: a login for the unverified account has just been answered
\* 401 and recorded as failed, next to the session of the verified account
C25_Witness ==
    /\ last.kind = "login" /\ last.email = "bob"
    /\ last.status = 401 /\ last.message = "Please verify your email first"
    /\ \E i \in AccountOf("bob") : ~users[i].isVerified
    /\ \E a \in DOMAIN attempts : a.email = "bob" /\ ~a.successful
    /\ sessions # {}

-----------------------------------------------------------------------------
(* Properties of the tokens and the notifier, checked under Spec *)

ResetTokenImpliesVerified(us) ==
    \A i \in UserIds(us) : us[i].passwordResetToken # NullToken => us[i].isVerified

\* C26: an account that holds a reset token is verified; a forgot-password
\* request for an unverified account is answered 400 "Please verify your
\* email first" and sets no reset token, and one for an address without
\* account changes no state
C26_ResetTokenOnlyForVerified ==
    [][/\ ResetTokenImpliesVerified(users) /\ ResetTokenImpliesVerified(users')
       /\ \A e \in Emails, ok \in BOOLEAN :
            ForgotPassword(e, ok) =>
              /\ (\E i \in AccountOf(e) : ~users[i].isVerified)
                    => /\ last'.status = 400
                       /\ last'.message = "Please verify your email first"
                       /\ users' = users
                       /\ outbox' = outbox
              /\ AccountOf(e) = {} => Database' = Database]_vars

\* C26 witness: bob's account is unverified and his forgot-password request
\* has just been refused, leaving it without reset token
C26_Witness ==
    /\ last.kind = "forgot" /\ last.email = "bob" /\ last.status = 400
    /\ last.message = "Please verify your email first"
    /\ \E i \in AccountOf("bob") : ~users[i].isVerified
                                   /\ users[i].passwordResetToken = NullToken

\* a register for the address sends a verification mail
RegisterDelivers(e) ==
    \/ AccountsFor(users, ToLowerCase(e)) = {}
    \/ FindByEmail(users, e).id # 0 /\ ~FindByEmail(users, e).isVerified

\* a forgot-password request for the address sends a reset mail
ForgotDelivers(e) == \E i \in AccountOf(e) : users[i].isVerified

\* C27: when the mail sender fails while register or forgot-password is
\* delivering a token, the request is answered 500 "Server error"
C27_NotifierFailureIs500 ==
    [][\A e \in Emails :
        /\ (Register(e, FALSE) /\ RegisterDelivers(e))
              => /\ last'.status = 500
                 /\ last'.message = "Server error"
                 /\ outbox' = outbox
        /\ (ForgotPassword(e, FALSE) /\ ForgotDelivers(e))
              => /\ last'.status = 500
                 /\ last'.message = "Server error"
                 /\ outbox' = outbox]_vars

\* C27 witness: the reset mail for the verified account could not be sent;
\* the request was answered 500 with the token already stored
C27_Witness ==
    /\ last.kind = "forgot" /\ ~last.mailOk
    /\ last.status = 500 /\ last.message = "Server error"
    /\ \E i \in AccountOf(last.email) :
            /\ users[i].isVerified
            /\ users[i].passwordResetToken # NullToken
            /\ \A m \in outbox : m.token # users[i].passwordResetToken

\* the answer is a refusal that wrote nothing
Refused(rq) ==
    \E out \in {RunToEnd(Database, now, rq)} : out.r.status = 400 /\ out.db = Database

VerifyRefuses(tok) == \A pw \in Passwords : Refused(VerifyRequest(tok, pw))

ResetRefuses(tok) == \A pw \in Passwords : Refused(ResetRequest(tok, pw))

\* C28: a registration token that verified an account is refused by every
\* later verification, a reset token that reset a password by every later
\* reset; a valid reset token is refused by the verification and a valid
\* registration token by the reset
C28_TokensSingleUseAndSeparate ==
    /\ \A tok \in Tokens :
        [](last.kind = "verify" /\ last.token = tok /\ last.status = 200
              => [] VerifyRefuses(tok))
    /\ \A tok \in Tokens :
        [](last.kind = "reset" /\ last.token = tok /\ last.status = 200
              => [] ResetRefuses(tok))
    /\ [](\A tok \in Tokens :
            /\ ResetValidity(tok) = "valid" => VerifyRefuses(tok)
            /\ RegistrationValidity(tok) = "valid" => ResetRefuses(tok))

\* C28 witness: token 1 verified ann's account and token 2 reset her
\* password; both are spent
C28_Witness ==
    /\ last.kind = "reset" /\ last.token = 2 /\ last.status = 200
    /\ [kind |-> "verification", to |-> "ann", token |-> 1] \in outbox
    /\ [kind |-> "passwordReset", to |-> "ann", token |-> 2] \in outbox
    /\ FindByEmail(users, "ann").isVerified
    /\ VerifyRefuses(1) /\ ResetRefuses(2)

-----------------------------------------------------------------------------
(* Properties of the lockouts, checked under SpecReset and SpecLockEnds *)

\* C29: whenever 10 or more failed rows of a source lie within the last 15
\* minutes, whatever addresses they name, every login from the source is
\* answered 429, also one for an address without failed rows that carries
\* the correct password; nothing is recorded and no session is created
C29_SourceLockout ==
    [][\A e \in {"ann"} \cup Strangers, pw \in ResetPasswords, ip \in LoginAddresses :
        (Login(e, pw, ip) /\ WindowFailuresOfIp(ip) >= IpFailLimit)
            => /\ last'.status = 429
               /\ last'.rtoken = NoJwt
               /\ Database' = Database]_vars

\* C29 witness: ten failed logins for two other addresses came from the
\* source; ann's login with her password, her first, was answered 429
C29_Witness ==
    /\ last.kind = "login" /\ last.email = "ann" /\ last.status = 429
    /\ CorrectPassword("ann", last.password)
    /\ WindowFailuresOfEmail("ann") = 0
    /\ WindowFailuresOfIp(last.ip) >= IpFailLimit
    /\ \A a \in DOMAIN attempts : a.email \in Strangers
    /\ sessions = {}

\* every failed row of the address is older than the window
FailuresAgedOut(db, t, email) ==
    \A a \in DOMAIN db.attempts :
        (a.email = email /\ ~a.successful) => t - a.timestamp > AttemptWindow

\* every session record of the address's account is older than 24 hours
SessionsAgedOut(db, t, email) ==
    \A i \in UserIds(db.users), s \in db.sessions :
        (db.users[i].email = email /\ s.userId = i) => t - s.createdAt > SessionTTL

SessionHeld(db, email) ==
    \E i \in UserIds(db.users), s \in db.sessions :
        db.users[i].email = email /\ s.userId = i

LockedOut(db, t, email) ==
    CountFailedByEmail(db.attempts, email, t - AttemptWindow) >= EmailFailLimit

\* a refused login leaves the ledger alone, and once the failed rows of the
\* address have aged out a login for it is not answered 429
LockoutEnds(db, t) ==
    \A pw \in LoginPasswords, ip \in LoginAddresses :
        \E out \in {RunToEnd(db, t, LoginRequest("ann", pw, ip))} :
            /\ out.r.status = 429 => out.db = db
            /\ FailuresAgedOut(db, t, "ann") => out.r.status # 429

\* a session record older than 24 hours does not cause a 409
AgedSessionAdmits(db, t) ==
    \A pw \in LoginPasswords, ip \in LoginAddresses :
        SessionsAgedOut(db, t, "ann")
            => Response(db, t, LoginRequest("ann", pw, ip)).status # 409

\* a session record causes a 409 exactly while it exists
SessionBlocksWhileHeld(db, t) ==
    \A pw \in LoginPasswords, ip \in LoginAddresses :
        \E out \in {RunToEnd(db, t, LoginRequest("ann", pw, ip))} :
            /\ (SessionHeld(db, "ann") /\ ~LockedOut(db, t, "ann")) => out.r.status = 409
            /\ ~SessionHeld(db, "ann") => out.r.status # 409

\* C30: a failed row stops counting once it is older than 15 minutes, so a
\* locked-out address is admitted again when its failures have aged out,
\* however many logins were answered 429 in between; and a session record
\* older than 24 hours no longer causes a 409
C30_LockoutAndSessionEnd ==
    /\ LockoutEnds(Database, now)
    /\ AgedSessionAdmits(Database, now)

\* what does hold: the lockout ends as stated; a session record causes a 409
\* for as long as it exists, whatever its age, is deleted by the store's TTL
\* monitor at some time after it has become 24 hours old and not before, and
\* causes no 409 once it is deleted
LockoutEndsSessionUntilDeleted ==
    [][/\ LockoutEnds(Database, now) /\ LockoutEnds(Database', now')
       /\ SessionBlocksWhileHeld(Database, now) /\ SessionBlocksWhileHeld(Database', now')
       /\ sessions' # sessions /\ last' = last
            => /\ \A s \in sessions \ sessions' : now - s.createdAt >= SessionTTL
               /\ \A s \in sessions' : now - s.createdAt < SessionTTL
       /\ \A pw \in LoginPasswords, ip \in LoginAddresses :
            (Login("ann", pw, ip) /\ last'.status = 429) => attempts' = attempts
      ]_vars

-----------------------------------------------------------------------------
(* Properties of the ledger across a successful login, checked under      *)
(* SpecLogin                                                              *)

FailedRows(as) == [a \in {x \in DOMAIN as : ~x.successful} |-> as[a]]

\* the ledger holds a success of the address and at least 5 of its failures
\* within the window that ends at t
FailuresAroundSuccess(db, t, email) ==
    /\ \E a \in DOMAIN db.attempts :
            a.email = email /\ a.successful /\ a.timestamp >= t - AttemptWindow
    /\ SumOver(db.attempts, {a \in DOMAIN db.attempts :
            a.email = email /\ ~a.successful /\ a.timestamp >= t - AttemptWindow})
          >= EmailFailLimit

StillLockedOut(db, t) ==
    \A e \in LoginEmails, pw \in LoginPasswords, ip \in LoginAddresses :
        FailuresAroundSuccess(db, t, ToLowerCase(e))
            => \E out \in {RunToEnd(db, t, LoginRequest(e, pw, ip))} :
                    out.r.status = 429 /\ out.db = db

\* C31: a successful login leaves the failed rows in the ledger, and they
\* go on counting: with 5 failed rows of an address in the last 15 minutes
\* a login for it is answered 429 also when a successful login lies among
\* them
C31_SuccessKeepsFailures ==
    [][/\ \A e \in LoginEmails, pw \in LoginPasswords, ip \in LoginAddresses :
            (Login(e, pw, ip) /\ last'.status = 200)
                => FailedRows(attempts') = FailedRows(attempts)
       /\ StillLockedOut(Database', now')]_vars

\* C31 witness: four failures, a successful login, a logout and a fifth
\* failure, all within one window; a login with the right password is now
\* answered 429
C31_Witness ==
    /\ last.kind = "login" /\ last.status = 401
    /\ WindowFailuresOfEmail("ann") = EmailFailLimit
    /\ sessions = {}
    /\ \E a \in DOMAIN attempts :
          /\ a.successful /\ a.email = "ann"
          /\ \E b \in DOMAIN attempts : ~b.successful /\ attempts[b] = 4
                                        /\ b.timestamp = a.timestamp
    /\ Response(Database, now, LoginRequest("ann", "password1", "10.0.0.1")).status = 429

-----------------------------------------------------------------------------
(* Properties of overlapping logins, checked under SpecRace *)

\* C32: however concurrent logins for one address interleave, the failed
\* rows of the address within 15 minutes never exceed 5
C32_AtMostFiveFailures ==
    WindowFailuresOfEmail("ann") <= EmailFailLimit

\* a login with the account's password that has been answered 200 with a token
SucceededOn(p) ==
    /\ inflight[p].kind = "login" /\ inflight[p].pc = "done"
    /\ inflight[p].status = 200 /\ inflight[p].rtoken # NoJwt
    /\ CorrectPassword(inflight[p].email, inflight[p].password)

\* C33: of two overlapping logins for the verified account that both carry
\* the correct password, at most one is answered 200 with a token
C33_AtMostOneSucceeds ==
    \A p \in Procs, q \in Procs : (p # q /\ SucceededOn(p)) => ~SucceededOn(q)

-----------------------------------------------------------------------------
(* Properties of the password under overlapping requests, checked under   *)
(* SpecConc                                                               *)

\* C34: however the requests before it interleaved, a verification that
\* begins now does not change the password of an account that is verified
\* now, whatever token and password it carries
C34_VerifyKeepsVerifiedPassword ==
    \A tok \in Tokens, pw \in ResetPasswords :
        \E out \in {RunToEnd(Database, now, VerifyRequest(tok, pw))} :
            \A i \in UserIds(users) :
                users[i].isVerified => out.db.users[i].password = users[i].password

====
